---------------------------- MODULE Spec2Model ----------------------------
(***************************************************************************)
(* Model of the two components of the repository:                          *)
(*                                                                         *)
(*   app/app.py                        the Flask service: the routes /,    *)
(*                                     /health, /ready and /metrics over   *)
(*                                     the module globals request_count    *)
(*                                     and app_start_time;                 *)
(*   scripts/validate_test_coverage.py the requirement-coverage validator. *)
(*                                                                         *)
(* The service is served by a pool of threads.  `request_count += 1' is a  *)
(* read of the global, an addition and a write of the global, and another  *)
(* thread may run between the read and the write, so hello() is modelled   *)
(* as the steps load, store, finish.  health(), ready() and metrics()      *)
(* write no shared state and read it at most once, so each is one step.    *)
(***************************************************************************)
EXTENDS Integers, Sequences, FiniteSets, TLC

VARIABLES
    \* ---- app/app.py ----
    request_count,   \* the module global request_count
    app_start_time,  \* the module global app_start_time
    now,             \* the clock read by time.time() and datetime.now()
    pc,              \* pc[w]: where thread w stands in hello()
    tmp,             \* tmp[w]: the value thread w loaded for its addition
    lastLog,         \* the entry log_event wrote last
    lastResponse,    \* the response returned last
    started,         \* history: greeting requests started so far
    \* ---- scripts/validate_test_coverage.py ----
    fileExists,      \* whether app/tests/test_app.py exists
    content,         \* its lines
    args,            \* the parsed command line
    vpc,             \* where the validator run stands
    implemented,     \* the list find_implemented_tests returned
    prose,           \* the counts of the printed "Test Inventory" block
    report,          \* the report dictionary validate_coverage built
    jsonOut,         \* what main printed for --json
    exitStatus       \* the status the process exited with

appVars == <<request_count, app_start_time, now, pc, tmp, lastLog,
             lastResponse, started>>
valVars == <<fileExists, content, args, vpc, implemented, prose, report,
             jsonOut, exitStatus>>
vars == <<appVars, valVars>>

-----------------------------------------------------------------------------
(* Bounds *)

NumWorkers == 3      \* threads serving requests at the same time
MaxGreetings == 3    \* greeting requests in one run of the model
MaxTime == 1         \* ticks of the clock in one run of the model
MaxEdits == 2        \* how far a test file is from the empty / the full file
PerCategory == 2     \* names of each category an edit may add, drop or repeat

Workers == 1..NumWorkers

-----------------------------------------------------------------------------
(* app/app.py *)

NoLog == [event |-> "none", endpoint |-> "none"]
NoResponse == [status |-> 0]

\* the three cache-suppression headers set by health() and ready()
NoCacheHeaders ==
    { <<"Cache-Control", "no-cache, no-store, must-revalidate">>,
      <<"Pragma", "no-cache">>,
      <<"Expires", "0">> }

\* log_event(event, endpoint, **extra_fields): the entry written to the log;
\* log_data.update(extra_fields) lets an extra field replace a fixed one
log_event(event, endpoint, extra_fields) ==
    extra_fields @@ [timestamp |-> now, event |-> event, endpoint |-> endpoint]

\* mutants of Incremented: an increment that cannot lose an update, and an
\* increment by two
Incremented_atomic(w) == request_count + 1
Incremented_twice(w) == tmp[w] + 2

\* what hello() stores back: the loaded value plus one
Incremented(w) == tmp[w] + 1

\* mutant of HelloLogged: the value loaded before the increment is logged
HelloLogged_preincrement(w) == tmp[w]

\* the request_count hello() passes to log_event: the global, read again
HelloLogged(w) == request_count

\* the request_count field of the /metrics body
MetricsCount == request_count

\* the response of hello()
HelloResponse ==
    [status |-> 200,
     body |-> [message |-> "Hello from Flask on Kubernetes (Minikube)!"],
     headers |-> {}]

\* the response of health()
HealthResponse ==
    [status |-> 200, body |-> [status |-> "healthy"],
     headers |-> NoCacheHeaders]

\* the response of ready()
ReadyResponse ==
    [status |-> 200, body |-> [status |-> "ready"],
     headers |-> NoCacheHeaders]

\* the response of metrics(); uptime_seconds in ticks of the clock
MetricsResponse ==
    [status |-> 200,
     body |-> [app |-> "hello-flask", version |-> "1.0.0",
               uptime_seconds |-> now - app_start_time,
               request_count |-> MetricsCount,
               timestamp |-> now, status |-> "running"],
     headers |-> {}]

\* the module has been imported: the process is fresh
AppInit ==
    /\ request_count = 0
    /\ app_start_time = 0
    /\ now = 0
    /\ pc = [w \in Workers |-> "idle"]
    /\ tmp = [w \in Workers |-> 0]
    /\ lastLog = NoLog
    /\ lastResponse = NoResponse
    /\ started = 0

\* the clock advances
Tick ==
    /\ now < MaxTime
    /\ now' = now + 1
    /\ UNCHANGED <<request_count, app_start_time, pc, tmp, lastLog,
                   lastResponse, started>>

\* a request for / is dispatched to the idle thread w, which enters hello()
HelloEnter(w) ==
    /\ pc[w] = "idle"
    /\ started < MaxGreetings
    /\ pc' = [pc EXCEPT ![w] = "load"]
    /\ started' = started + 1
    /\ UNCHANGED <<request_count, app_start_time, now, tmp, lastLog,
                   lastResponse>>

\* hello(): request_count += 1, the read of the global
HelloLoad(w) ==
    /\ pc[w] = "load"
    /\ tmp' = [tmp EXCEPT ![w] = request_count]
    /\ pc' = [pc EXCEPT ![w] = "store"]
    /\ UNCHANGED <<request_count, app_start_time, now, lastLog, lastResponse,
                   started>>

\* hello(): request_count += 1, the write of the global
HelloStore(w) ==
    /\ pc[w] = "store"
    /\ request_count' = Incremented(w)
    /\ pc' = [pc EXCEPT ![w] = "log"]
    /\ UNCHANGED <<app_start_time, now, tmp, lastLog, lastResponse, started>>

\* hello(): log_event(event="request", ..., request_count=request_count) and
\* return jsonify(message=...)
HelloFinish(w) ==
    /\ pc[w] = "log"
    /\ lastLog' = log_event("request", "/",
                            [method |-> "GET",
                             request_count |-> HelloLogged(w)])
    /\ lastResponse' = HelloResponse
    /\ pc' = [pc EXCEPT ![w] = "idle"]
    /\ tmp' = [tmp EXCEPT ![w] = 0]
    /\ UNCHANGED <<request_count, app_start_time, now, started>>

\* mutant of Health: the liveness probe is counted as a request
Health_counted ==
    /\ lastLog' = log_event("health_check", "/health", [status |-> "healthy"])
    /\ lastResponse' = HealthResponse
    /\ request_count' = request_count + 1
    /\ UNCHANGED <<app_start_time, now, pc, tmp, started>>

\* health(): the log entry, then the response with its headers and 200
Health ==
    /\ lastLog' = log_event("health_check", "/health", [status |-> "healthy"])
    /\ lastResponse' = HealthResponse
    /\ UNCHANGED <<request_count, app_start_time, now, pc, tmp, started>>

\* ready(): the log entry, then the response with its headers and 200
Ready ==
    /\ lastLog' = log_event("readiness_check", "/ready", [status |-> "ready"])
    /\ lastResponse' = ReadyResponse
    /\ UNCHANGED <<request_count, app_start_time, now, pc, tmp, started>>

\* metrics(): the log entry, then the body with the current request_count
Metrics ==
    /\ lastLog' = log_event("metrics_request", "/metrics", <<>>)
    /\ lastResponse' = MetricsResponse
    /\ UNCHANGED <<request_count, app_start_time, now, pc, tmp, started>>

\* no thread is inside hello()
AllIdle == \A w \in Workers : pc[w] = "idle"

\* history: the greeting requests whose write of request_count is done
StoresDone ==
    started - Cardinality({w \in Workers : pc[w] \in {"load", "store"}})

-----------------------------------------------------------------------------
(* scripts/validate_test_coverage.py *)

\* EXPECTED_TESTS, in the order of the dictionary
EXPECTED_TESTS ==
    << [name |-> "root_endpoint",
        count |-> 4,
        tests |-> << "test_home_returns_200_ok",
                     "test_home_response_content",
                     "test_response_latency",
                     "test_invalid_route_returns_404" >>,
        description |-> "Root endpoint (/) tests"],
       [name |-> "health_endpoint",
        count |-> 9,
        tests |-> << "test_health_endpoint_returns_200",
                     "test_health_endpoint_content",
                     "test_health_endpoint_performance",
                     "test_health_endpoint_cache_control",
                     "test_health_endpoint_headers",
                     "test_health_endpoint_http_methods",
                     "test_health_endpoint_consistency",
                     "test_health_endpoint_no_side_effects",
                     "test_health_vs_root_endpoint_independence" >>,
        description |-> "Health endpoint (/health) tests - liveness probe"],
       [name |-> "ready_endpoint",
        count |-> 9,
        tests |-> << "test_ready_endpoint_returns_200",
                     "test_ready_endpoint_content",
                     "test_ready_endpoint_performance",
                     "test_ready_endpoint_cache_control",
                     "test_ready_endpoint_cache_control_detailed",
                     "test_ready_endpoint_http_methods",
                     "test_ready_endpoint_consistency",
                     "test_ready_endpoint_no_side_effects",
                     "test_ready_vs_health_independence" >>,
        description |-> "Ready endpoint (/ready) tests - readiness probe"] >>

Categories == 1..Len(EXPECTED_TESTS)

Range(s) == {s[i] : i \in 1..Len(s)}

RECURSIVE SumCounts(_)
SumCounts(k) ==
    IF k = 0 THEN 0 ELSE EXPECTED_TESTS[k].count + SumCounts(k - 1)

\* TOTAL_EXPECTED = sum(category["count"] for category in ...)
TOTAL_EXPECTED == SumCounts(Len(EXPECTED_TESTS))

(* A line of the test file is a sequence of tokens: " " is white space,     *)
(* "def " the keyword with its blank, "(" the parenthesis, and every other  *)
(* token a run of characters holding none of these.  A string is the        *)
(* concatenation of its tokens, so a test name read from a line is a        *)
(* sequence of tokens, and the name n of the table is the sequence <<n>>.   *)

Str(n) == <<n>>

\* the documented names, and names no category documents
ExpectedNames ==
    UNION {Range(EXPECTED_TESTS[c].tests) : c \in Categories}
UndocumentedNames == {"test_metrics_endpoint"}

\* the tokens that begin with "test_"
TestTokens == ExpectedNames \cup UndocumentedNames

\* str.strip()
RECURSIVE lstrip(_)
lstrip(line) ==
    IF line # <<>> /\ Head(line) = " " THEN lstrip(Tail(line)) ELSE line

RECURSIVE rstrip(_)
rstrip(line) ==
    IF line # <<>> /\ line[Len(line)] = " "
    THEN rstrip(SubSeq(line, 1, Len(line) - 1))
    ELSE line

strip(line) == rstrip(lstrip(line))

\* line.startswith('def test_')
startswith_def_test(line) ==
    /\ Len(line) >= 2
    /\ line[1] = "def "
    /\ line[2] \in TestTokens

\* line.split('(')[0]
RECURSIVE split_paren_0(_)
split_paren_0(line) ==
    IF line = <<>> \/ Head(line) = "(" THEN <<>>
    ELSE <<Head(line)>> \o split_paren_0(Tail(line))

\* s.replace('def ', '')
IsNotDef(t) == t # "def "
replace_def(s) == SelectSeq(s, IsNotDef)

\* the name find_implemented_tests takes from a stripped declaration line
test_name(line) == replace_def(split_paren_0(line))

\* find_implemented_tests(), the loop over the lines of the file
RECURSIVE find_implemented_tests(_)
find_implemented_tests(lines) ==
    IF lines = <<>> THEN <<>>
    ELSE LET line == strip(Head(lines))
         IN  (IF startswith_def_test(line) THEN <<test_name(line)>> ELSE <<>>)
             \o find_implemented_tests(Tail(lines))

\* set(category_data["tests"])
expected_tests(c) == {Str(n) : n \in Range(EXPECTED_TESTS[c].tests)}

\* set(test for test in implemented if test in expected_tests)
implemented_in_category(impl, c) ==
    {t \in Range(impl) : t \in expected_tests(c)}

\* expected_tests - implemented_in_category
missing_in_category(impl, c) ==
    expected_tests(c) \ implemented_in_category(impl, c)

\* list(a set of names of category c).  Python leaves the order of a set
\* open; the model lists the names in the order of the table.
ListOf(S, c) ==
    LET InS(n) == Str(n) \in S
        names == SelectSeq(EXPECTED_TESTS[c].tests, InS)
    IN  [i \in 1..Len(names) |-> Str(names[i])]

\* categories_status[category_name]
category_status(impl, c) ==
    [expected |-> Cardinality(expected_tests(c)),
     implemented |-> Cardinality(implemented_in_category(impl, c)),
     missing |-> ListOf(missing_in_category(impl, c), c),
     description |-> EXPECTED_TESTS[c].description]

\* missing_tests, after the loop over the first k categories
RECURSIVE missing_tests_upto(_, _)
missing_tests_upto(impl, k) ==
    IF k = 0 THEN <<>>
    ELSE missing_tests_upto(impl, k - 1)
         \o ListOf(missing_in_category(impl, k), k)

missing_tests(impl) == missing_tests_upto(impl, Len(EXPECTED_TESTS))

\* all_expected: the union of every category's tests
all_expected == UNION {expected_tests(c) : c \in Categories}

\* mutant of extra_tests: the names are looked up in expected_tests, which
\* after the category loop holds the last category only
extra_tests_last_category(impl) ==
    LET NotExpected(t) == t \notin expected_tests(Len(EXPECTED_TESTS))
    IN  SelectSeq(impl, NotExpected)

\* [test for test in implemented if test not in all_expected]
extra_tests(impl) ==
    LET NotExpected(t) == t \notin all_expected
    IN  SelectSeq(impl, NotExpected)

\* all_good after the category loop and the check of extra_tests
all_good(impl) ==
    /\ \A c \in Categories : category_status(impl, c).missing = <<>>
    /\ extra_tests(impl) = <<>>

\* mutant of valid: the total is not compared
valid_without_total(impl) == all_good(impl)

\* the verdict: all_good and len(implemented) == TOTAL_EXPECTED
valid(impl) == all_good(impl) /\ Len(impl) = TOTAL_EXPECTED

\* coverage_pct, a float in the code, as the fraction num / den
coverage_pct(impl) ==
    IF valid(impl)
    THEN [num |-> 100, den |-> 1]
    ELSE [num |-> (Len(impl) - Len(extra_tests(impl))) * 100,
          den |-> TOTAL_EXPECTED]

\* the counts printed under "Test Inventory"
prose_counts(impl) ==
    [expected |-> TOTAL_EXPECTED,
     implemented |-> Len(impl),
     missing |-> Len(missing_tests(impl)),
     undocumented |-> Len(extra_tests(impl))]

\* the report dictionary
build_report(impl) ==
    [valid |-> valid(impl),
     requirement_coverage_pct |-> coverage_pct(impl),
     expected_count |-> TOTAL_EXPECTED,
     implemented_count |-> Len(impl),
     missing_count |-> Len(missing_tests(impl)),
     extra_count |-> Len(extra_tests(impl)),
     missing_tests |-> missing_tests(impl),
     extra_tests |-> extra_tests(impl),
     categories |-> [c \in Categories |-> category_status(impl, c)]]

(* The test files of the model.  A file is told by the documented names it  *)
(* declares once at the top level (P), the ones among them it declares a    *)
(* second time as a method of a class (D), and the lines that follow (X).   *)
(* The files taken are those within MaxEdits edits of the file that         *)
(* declares nothing or of the file that declares every documented name      *)
(* exactly once; an edit adds, drops or repeats one of the first            *)
(* PerCategory names of a category, or appends one of ExtraLines.           *)

\* "def n(client):"
DeclLine(n) == <<"def ", n, "(", "client):">>
\* "    def n(self):", a method of a test class
MethodLine(n) == <<" ", "def ", n, "(", "self):">>
\* "def n (client):", a blank before the parenthesis
SpacedLine(n) == <<"def ", n, " ", "(", "client):">>
\* "# def n(client):", a declaration commented out
CommentLine(n) == <<"#", " ", "def ", n, "(", "client):">>

ExtraLines ==
    { DeclLine("test_metrics_endpoint"),
      SpacedLine("test_home_returns_200_ok"),
      CommentLine("test_home_response_content") }

\* the documented names in the order of the table
RECURSIVE TestsUpto(_)
TestsUpto(k) ==
    IF k = 0 THEN <<>> ELSE TestsUpto(k - 1) \o EXPECTED_TESTS[k].tests

AllTests == TestsUpto(Len(EXPECTED_TESTS))

\* the subsets of S of at most k elements
RECURSIVE SubsetsUpTo(_, _)
SubsetsUpTo(S, k) ==
    IF k <= 0 THEN {{}}
    ELSE LET smaller == SubsetsUpTo(S, k - 1)
         IN  smaller \cup {s \cup {x} : s \in smaller, x \in S}

\* the sequences over S of at most k elements
RECURSIVE SeqsUpTo(_, _)
SeqsUpTo(S, k) ==
    IF k <= 0 THEN {<<>>}
    ELSE LET shorter == SeqsUpTo(S, k - 1)
         IN  shorter \cup {Append(s, x) : s \in shorter, x \in S}

\* the names the edits touch
EditedNames ==
    UNION { {EXPECTED_TESTS[c].tests[i] :
                i \in 1..(IF PerCategory < Len(EXPECTED_TESTS[c].tests)
                          THEN PerCategory
                          ELSE Len(EXPECTED_TESTS[c].tests))} :
            c \in Categories }

Distance(P) ==
    IF Cardinality(P) <= MaxEdits
    THEN Cardinality(P)
    ELSE Cardinality(ExpectedNames \ P)

FileOf(P, D, X) ==
    LET InP(n) == n \in P
        InD(n) == n \in D
        once == SelectSeq(AllTests, InP)
        twice == SelectSeq(AllTests, InD)
    IN  [i \in 1..Len(once) |-> DeclLine(once[i])]
        \o [i \in 1..Len(twice) |-> MethodLine(twice[i])]
        \o X

Files ==
    UNION { UNION { { FileOf(P, D, X) :
                      X \in SeqsUpTo(ExtraLines,
                                     MaxEdits - Distance(P) - Cardinality(D)) } :
                    D \in SubsetsUpTo(P \cap EditedNames,
                                     MaxEdits - Distance(P)) } :
            P \in SubsetsUpTo(EditedNames, MaxEdits)
                  \cup {ExpectedNames \ O :
                        O \in SubsetsUpTo(EditedNames, MaxEdits)} }

NoReport == [valid |-> FALSE, expected_count |-> 0]
NoProse == [expected |-> 0]

\* the validator has not been run
ValIdle ==
    /\ fileExists = FALSE
    /\ content = <<>>
    /\ args = [verbose |-> FALSE, json |-> FALSE]
    /\ vpc = "idle"
    /\ implemented = <<>>
    /\ prose = NoProse
    /\ report = NoReport
    /\ jsonOut = NoReport
    /\ exitStatus = -1

\* the validator is started: the file system it meets, and the namespace
\* parse_args returns for a command line of the options -v/--verbose, --json.
\* verbose adds the listing of the complete categories to the printed text
\* and enters nothing that is kept here.
ValInit ==
    /\ fileExists \in BOOLEAN
    /\ content \in (IF fileExists THEN Files ELSE {<<>>})
    /\ args \in [verbose : BOOLEAN, json : BOOLEAN]
    /\ vpc = "main"
    /\ implemented = <<>>
    /\ prose = NoProse
    /\ report = NoReport
    /\ jsonOut = NoReport
    /\ exitStatus = -1

\* whether find_implemented_tests goes on to read the file
FileFound == fileExists

\* main() calls validate_coverage, which calls find_implemented_tests():
\* sys.exit(1) when the file is not there, else the list of names
FindImplementedTests ==
    /\ vpc = "main"
    /\ IF FileFound
       THEN /\ implemented' = find_implemented_tests(content)
            /\ vpc' = "validate"
            /\ exitStatus' = exitStatus
       ELSE /\ implemented' = implemented
            /\ vpc' = "exited"
            /\ exitStatus' = 1
    /\ UNCHANGED <<fileExists, content, args, prose, report, jsonOut>>

\* the rest of validate_coverage: the checks, the printed counts, the report
ValidateCoverage ==
    /\ vpc = "validate"
    /\ prose' = prose_counts(implemented)
    /\ report' = build_report(implemented)
    /\ vpc' = "emit"
    /\ UNCHANGED <<fileExists, content, args, implemented, jsonOut,
                   exitStatus>>

\* mutant of ExitCode: the verdict does not reach the exit status
ExitCode_always_zero(is_valid) == 0

\* sys.exit(0 if is_valid else 1)
ExitCode(is_valid) == IF is_valid THEN 0 ELSE 1

\* the end of main(): the report as JSON when asked for, then the exit
MainExit ==
    /\ vpc = "emit"
    /\ jsonOut' = IF args.json THEN report ELSE jsonOut
    /\ exitStatus' = ExitCode(report.valid)
    /\ vpc' = "exited"
    /\ UNCHANGED <<fileExists, content, args, implemented, prose, report>>

-----------------------------------------------------------------------------
(* Specifications *)

\* the service, its threads interleaved
Init == AppInit /\ ValIdle

Next ==
    \/ Tick /\ UNCHANGED valVars
    \/ \E w \in Workers : HelloEnter(w) /\ UNCHANGED valVars
    \/ \E w \in Workers : HelloLoad(w) /\ UNCHANGED valVars
    \/ \E w \in Workers : HelloStore(w) /\ UNCHANGED valVars
    \/ \E w \in Workers : HelloFinish(w) /\ UNCHANGED valVars
    \/ Health /\ UNCHANGED valVars
    \/ Ready /\ UNCHANGED valVars
    \/ Metrics /\ UNCHANGED valVars

Spec == Init /\ [][Next]_vars

\* the service, one request at a time: a request is taken only when no
\* view function is running
NextSeq ==
    \/ Tick /\ UNCHANGED valVars
    \/ \E w \in Workers : AllIdle /\ HelloEnter(w) /\ UNCHANGED valVars
    \/ \E w \in Workers : HelloLoad(w) /\ UNCHANGED valVars
    \/ \E w \in Workers : HelloStore(w) /\ UNCHANGED valVars
    \/ \E w \in Workers : HelloFinish(w) /\ UNCHANGED valVars
    \/ AllIdle /\ Health /\ UNCHANGED valVars
    \/ AllIdle /\ Ready /\ UNCHANGED valVars
    \/ AllIdle /\ Metrics /\ UNCHANGED valVars

SpecSeq == Init /\ [][NextSeq]_vars

\* one run of the validator
InitVal == AppInit /\ ValInit

NextVal ==
    \/ FindImplementedTests /\ UNCHANGED appVars
    \/ ValidateCoverage /\ UNCHANGED appVars
    \/ MainExit /\ UNCHANGED appVars

SpecVal == InitVal /\ [][NextVal]_vars

-----------------------------------------------------------------------------
(* The claims about the service *)

\* C1 (SpecSeq): with the handlers run one at a time from a fresh process,
\* whenever no handler is running, the entry logged by the latest greeting
\* request (the N-th) carries request_count = N, and a /metrics request
\* answered after it and before the next greeting reports request_count = N,
\* N being the number of greeting requests so far.
C1_SequentialCount ==
    AllIdle =>
        /\ lastLog.event = "request" => lastLog.request_count = started
        /\ lastLog.event = "metrics_request" =>
               lastResponse.body.request_count = started

\* C1, witness: /metrics has just been answered after the second greeting
\* request, with probes in between
C1_Witness ==
    /\ AllIdle
    /\ started = 2
    /\ lastLog.event = "metrics_request"
    /\ lastResponse.body.request_count = 2

\* C2 (Spec): in every reachable state the latest response of /health is 200
\* {"status": "healthy"} and that of /ready is 200 {"status": "ready"}, each
\* with the three cache-suppression headers; and no step that handles
\* /health, /ready or /metrics changes request_count or app_start_time.
C2_ProbesStable ==
    /\ [](lastLog.endpoint = "/health" =>
              /\ lastResponse.status = 200
              /\ lastResponse.body = [status |-> "healthy"])
    /\ [](lastLog.endpoint = "/ready" =>
              /\ lastResponse.status = 200
              /\ lastResponse.body = [status |-> "ready"])
    /\ [](lastLog.endpoint \in {"/health", "/ready"} =>
              lastResponse.headers =
                  { <<"Cache-Control", "no-cache, no-store, must-revalidate">>,
                    <<"Pragma", "no-cache">>,
                    <<"Expires", "0">> })
    /\ [][(Health \/ Ready \/ Metrics) =>
              /\ request_count' = request_count
              /\ app_start_time' = app_start_time]_vars

\* C2, witness: /ready has just been answered while the counter stands at 2
\* and a greeting request is in flight
C2_Witness ==
    /\ lastLog.endpoint = "/ready"
    /\ request_count = 2
    /\ ~AllIdle

\* C3 (Spec): the read-add-write of hello() is not atomic: a handler that
\* writes back after the counter has moved on from the value it read loses an
\* update, the counter then standing strictly below the number of increments
\* performed; and the counter never exceeds that number.
C3_StaleWriteLosesUpdate ==
    /\ [](request_count <= StoresDone)
    /\ [][\A w \in Workers :
             (pc[w] = "store" /\ pc'[w] = "log" /\ tmp[w] # request_count)
                 => request_count' < StoresDone']_vars

\* C3, witness: two greeting requests have both completed, both read 0 and
\* both wrote 1
C3_Witness ==
    /\ AllIdle
    /\ started = 2
    /\ request_count = 1

\* C10 (Spec), as claimed: under every interleaving request_count never
\* decreases between two successive states, and never exceeds the number of
\* greeting requests started.
C10_Original ==
    /\ [][request_count' >= request_count]_vars
    /\ [](request_count <= started)

\* C10 (Spec), amended: request_count never exceeds the number of greeting
\* requests started and is never negative, and it decreases between two
\* successive states only by the write-back of a handler whose loaded value
\* is stale.
C10_Amended ==
    /\ [](request_count >= 0 /\ request_count <= started)
    /\ [][request_count' < request_count =>
              \E w \in Workers :
                  /\ pc[w] = "store" /\ pc'[w] = "log"
                  /\ tmp[w] + 1 < request_count
                  /\ request_count' = tmp[w] + 1]_vars

\* C10, witness: a handler that read the counter two writes ago is about to
\* write back
C10_Witness ==
    \E w \in Workers :
        /\ pc[w] = "store"
        /\ tmp[w] + 1 < request_count
        /\ request_count <= started

-----------------------------------------------------------------------------
(* The claims about the validator *)

\* validate_coverage has returned its report
Reported == fileExists /\ vpc \in {"emit", "exited"}

\* the names find_implemented_tests reads from the file
Declared == Range(find_implemented_tests(content))

\* the documented names, as the names read from a file are written
Documented == {Str(n) : n \in ExpectedNames}

RECURSIVE SumOver(_, _)
SumOver(f, k) == IF k = 0 THEN 0 ELSE f[k] + SumOver(f, k - 1)

\* C4 (SpecVal): for every list find_implemented_tests returns, repeated names
\* included, valid is true exactly when every category's implemented count
\* equals its expected count and len(implemented) equals TOTAL_EXPECTED.
C4_ValidIffCounts ==
    Reported =>
        (report.valid <=>
            /\ \A c \in Categories :
                   report.categories[c].implemented
                       = report.categories[c].expected
            /\ Len(implemented) = TOTAL_EXPECTED)

\* C4, witness: every category is complete, nothing is undocumented, and a
\* repeated name makes the list longer than the table
C4_Witness ==
    /\ Reported
    /\ \A c \in Categories :
           report.categories[c].implemented = report.categories[c].expected
    /\ report.extra_tests = <<>>
    /\ Len(implemented) > TOTAL_EXPECTED
    /\ ~report.valid

\* C5 (SpecVal), as claimed: for every file, valid is true exactly when the
\* reported missing_tests and extra_tests are both empty.
C5_Original ==
    Reported =>
        (report.valid <=>
            (report.missing_tests = <<>> /\ report.extra_tests = <<>>))

C7_Original ==
    Reported =>
        LET pct == report.requirement_coverage_pct
        IN  /\ pct.num * TOTAL_EXPECTED
                   = 100 * Cardinality(Declared \cap Documented) * pct.den
            /\ 0 <= pct.num
            /\ pct.num <= 100 * pct.den

\* C8 (SpecVal): a run ends, with status 0 or 1; the status is 0 exactly when
\* the file exists and validate_coverage returned valid = true; and without
\* the file the run exits with 1 before anything is evaluated: no counts are
\* printed, no report is built and none is printed as JSON, --json or not.
C8_ExitStatus ==
    /\ vpc # "exited" => ENABLED NextVal
    /\ vpc # "exited" => exitStatus = -1
    /\ vpc = "exited" =>
           /\ exitStatus \in {0, 1}
           /\ exitStatus = 0 <=> (fileExists /\ report.valid)
    /\ (vpc = "exited" /\ ~fileExists) =>
           /\ exitStatus = 1
           /\ implemented = <<>>
           /\ prose = NoProse
           /\ report = NoReport
           /\ jsonOut = NoReport

\* C8, witness: the file is not there, --json was given, the run has exited
C8_Witness ==
    /\ vpc = "exited"
    /\ ~fileExists
    /\ args.json
    /\ exitStatus = 1

\* C9 (SpecVal), as claimed: the printed counts and the report agree,
\* expected_count is the sum of the categories' expected values,
\* missing_count the sum of the lengths of their missing lists, and
\* implemented_count = (expected_count - missing_count) + extra_count.
C9_Original ==
    Reported =>
        /\ prose.expected = report.expected_count
        /\ prose.implemented = report.implemented_count
        /\ prose.missing = report.missing_count
        /\ prose.undocumented = report.extra_count
        /\ report.expected_count
               = SumOver([c \in Categories |-> report.categories[c].expected],
                         Len(EXPECTED_TESTS))
        /\ report.missing_count
               = SumOver([c \in Categories |->
                             Len(report.categories[c].missing)],
                         Len(EXPECTED_TESTS))
        /\ report.implemented_count
               = (report.expected_count - report.missing_count)
                     + report.extra_count

=============================================================================
